---- MODULE Spec2Model ----
(***************************************************************************)
(* Model of src/main.py: a Telegram bot that reads a seller-payout report  *)
(* (OZON accruals), totals it, optionally subtracts cost of goods from *)
(* a per-owner cost catalog kept in SQLite, and stores one row per report. *)
(*                                                                         *)
(* Texts are sequences of one-character strings.  Numbers are fixed-point  *)
(* integers counted in units of 1/Scale, so that every sum, difference and *)
(* product of the cells the model enumerates is exact; the rounding of     *)
(* Python's binary floats is outside the model.  Cyrillic column labels    *)
(* and keywords are written in Latin transliteration.                      *)
(***************************************************************************)
EXTENDS Integers, Sequences, FiniteSets, TLC

(***************************************************************************)
(* Bounds of the model.                                                    *)
(***************************************************************************)
\* most data rows in an uploaded document
MaxRows == 2
\* most data rows in a document sent to the bot of Spec
MaxBotRows == 1
\* most rows kept in the profit_reports table
MaxReports == 1
\* most digits after the decimal separator in a cell text
FracDigits == 1

RECURSIVE Pow10(_)
Pow10(k) == IF k = 0 THEN 1 ELSE 10 * Pow10(k - 1)

\* one unit of the fixed-point numbers is 1/Scale; twice FracDigits digits
\* keep a product of two parsed numbers exact
Scale == Pow10(2 * FracDigits)

\* a * b of two fixed-point numbers, a taken apart so that the intermediate
\* products stay small
Mul(a, b) == (a \div Scale) * b + ((a % Scale) * b) \div Scale

(***************************************************************************)
(* Texts.                                                                  *)
(***************************************************************************)
Digits == {"0", "1", "2", "3", "4", "5", "6", "7", "8", "9"}

DigitVal(c) ==
    CASE c = "0" -> 0 [] c = "1" -> 1 [] c = "2" -> 2 [] c = "3" -> 3
      [] c = "4" -> 4 [] c = "5" -> 5 [] c = "6" -> 6 [] c = "7" -> 7
      [] c = "8" -> 8 [] c = "9" -> 9

\* "~" stands for the non-breaking space U+00A0, "_" for a tab
NBSP == "~"
Whitespace == {" ", "_", NBSP}

\* the missing value of pandas (an empty cell of the file)
NaN == <<"NaN">>

\* an optional value: None, or Some(v) with Val(Some(v)) = v
None == <<>>
Some(v) == <<v>>
Val(o) == o[1]

isna(x) == x = NaN

\* str(x) of a cell: the text itself, "nan" for the missing value
str(x) == IF isna(x) THEN <<"n", "a", "n">> ELSE x

RECURSIVE Remove(_, _)
\* s.replace(c, "") for the characters of cs
Remove(s, cs) ==
    IF s = <<>> THEN <<>>
    ELSE IF Head(s) \in cs THEN Remove(Tail(s), cs)
         ELSE <<Head(s)>> \o Remove(Tail(s), cs)

\* s.replace(a, b)
Replace(s, a, b) == [i \in 1..Len(s) |-> IF s[i] = a THEN b ELSE s[i]]

RECURSIVE LStrip(_)
LStrip(s) ==
    IF s # <<>> /\ Head(s) \in Whitespace THEN LStrip(Tail(s)) ELSE s

RECURSIVE RStrip(_)
RStrip(s) ==
    IF s # <<>> /\ s[Len(s)] \in Whitespace
    THEN RStrip(SubSeq(s, 1, Len(s) - 1)) ELSE s

\* s.strip()
Strip(s) == RStrip(LStrip(s))

RECURSIVE DigitsEnd(_, _)
\* the index of the last digit of the run of digits that starts at s[i]
DigitsEnd(s, i) ==
    IF i + 1 <= Len(s) /\ s[i + 1] \in Digits THEN DigitsEnd(s, i + 1) ELSE i

RECURSIVE DigitsVal(_, _, _)
\* the number written by the digits s[i..j]
DigitsVal(s, i, j) ==
    IF j < i THEN 0 ELSE 10 * DigitsVal(s, i, j - 1) + DigitVal(s[j])

IsDigitAt(s, i) == i <= Len(s) /\ s[i] \in Digits

\* the positions at which the pattern -?\d+(?:\.\d+)? matches
MatchStarts(s) ==
    {i \in 1..Len(s) :
        \/ IsDigitAt(s, i)
        \/ s[i] = "-" /\ IsDigitAt(s, i + 1)}

Min(S) == CHOOSE x \in S : \A y \in S : x <= y
Max(S) == CHOOSE x \in S : \A y \in S : x >= y

\* float(m.group(0)) of the match that starts at s[i], in units of 1/Scale
MatchVal(s, i) ==
    LET neg   == s[i] = "-"
        d0    == IF neg THEN i + 1 ELSE i
        d1    == DigitsEnd(s, d0)
        frac  == d1 + 1 <= Len(s) /\ s[d1 + 1] = "." /\ IsDigitAt(s, d1 + 2)
        f1    == IF frac THEN DigitsEnd(s, d1 + 2) ELSE d1 + 1
        k     == IF frac THEN f1 - (d1 + 1) ELSE 0
        whole == DigitsVal(s, d0, d1) * Scale
        part  == IF frac
                 THEN (DigitsVal(s, d1 + 2, f1) * Scale) \div Pow10(k)
                 ELSE 0
    IN  IF neg THEN 0 - (whole + part) ELSE whole + part

\* a mutation of _parse_number: a cell without a number reads as zero
_parse_number_zero(x) ==
    IF isna(x) THEN Some(0)
    ELSE LET s == Strip(Replace(Remove(str(x), {NBSP, " "}), ",", "."))
         IN  IF MatchStarts(s) = {} THEN Some(0)
             ELSE Some(MatchVal(s, Min(MatchStarts(s))))

\* _parse_number: the first signed decimal token of the text, or None
_parse_number(x) ==
    IF isna(x) THEN None
    ELSE LET s == Strip(Replace(Remove(str(x), {NBSP, " "}), ",", "."))
         IN  IF MatchStarts(s) = {} THEN None
             ELSE Some(MatchVal(s, Min(MatchStarts(s))))

\* Series.notna() of a parsed cell
notna(v) == v # None

(***************************************************************************)
(* Column labels.  A label is a string; _norm gives its lower-case form    *)
(* and Occurs says which of the searched keywords that form contains.      *)
(* The Cyrillic keywords of the source are transliterated: "itogo",        *)
(* "summ", "nachisl", "artikul", "kol".                                     *)
(***************************************************************************)
Labels ==
    {"Itogo", "Summa", "Amount", "sku", "SKU", "Artikul", "Kol-vo",
     "Itogo kol-vo", "Data", "cogs", "Cogs"}

\* _norm: whitespace collapsed, stripped, lower case
_norm(c) ==
    CASE c = "Itogo" -> "itogo"
      [] c = "Summa" -> "summa"
      [] c = "Amount" -> "amount"
      [] c = "SKU" -> "sku"
      [] c = "Artikul" -> "artikul"
      [] c = "Kol-vo" -> "kol-vo"
      [] c = "Itogo kol-vo" -> "itogo kol-vo"
      [] c = "Data" -> "data"
      [] c = "Cogs" -> "cogs"
      [] OTHER -> c

\* kw in nc, for the keywords the finders search
Occurs(kw, nc) ==
    CASE nc = "itogo" -> kw = "itogo"
      [] nc = "summa" -> kw = "summ"
      [] nc = "amount" -> kw = "amount"
      [] nc = "sku" -> kw = "sku"
      [] nc = "artikul" -> kw = "artikul"
      [] nc = "kol-vo" -> kw = "kol"
      [] nc = "itogo kol-vo" -> kw \in {"itogo", "kol"}
      [] OTHER -> FALSE

\* the falsy column reference (None)
NoCol == ""

Range(f) == {f[i] : i \in DOMAIN f}

\* the first column of cols that is in the set hits, or None
FirstCol(cols, hits) ==
    LET at == {i \in 1..Len(cols) : cols[i] \in hits}
    IN  IF at = {} THEN NoCol ELSE cols[Min(at)]

find_amount_col(cols) ==
    LET total == {c \in Range(cols) : Occurs("itogo", _norm(c))}
        sums == {c \in Range(cols) :
                    \/ Occurs("summ", _norm(c))
                    \/ Occurs("nachisl", _norm(c))
                    \/ Occurs("amount", _norm(c))}
    IN  IF FirstCol(cols, total) # NoCol THEN FirstCol(cols, total)
        ELSE FirstCol(cols, sums)

find_sku_col(cols) ==
    FirstCol(cols, {c \in Range(cols) :
                       \/ Occurs("sku", _norm(c))
                       \/ Occurs("offer", _norm(c))
                       \/ Occurs("artikul", _norm(c))})

find_qty_col(cols) ==
    FirstCol(cols, {c \in Range(cols) :
                       \/ Occurs("kol", _norm(c))
                       \/ Occurs("quantity", _norm(c))
                       \/ Occurs("qty", _norm(c))})

(***************************************************************************)
(* Documents and tables.  A document is a file sent to the bot: its name's *)
(* suffix, a header row of labels and data rows of cell texts; err_row is  *)
(* the data row at which a strict read of the file raises (0: none).       *)
(* A DataFrame is its columns and its rows, each row a function from the   *)
(* column labels to cells.                                                 *)
(***************************************************************************)
\* load_table: the rows of the file as a DataFrame, an empty cell being NaN
load_table(doc) ==
    [columns |-> doc.cols,
     rows |-> [i \in 1..Len(doc.rows) |->
                 [c \in Range(doc.cols) |->
                    LET j == Min({k \in 1..Len(doc.cols) : doc.cols[k] = c})
                    IN  IF doc.rows[i][j] = <<>> THEN NaN ELSE doc.rows[i][j]]]]

\* df.empty
empty(df) == Len(df.columns) = 0 \/ Len(df.rows) = 0

RECURSIVE Sum(_)
\* the sum of a sequence of numbers
Sum(seq) == IF seq = <<>> THEN 0 ELSE Head(seq) + Sum(Tail(seq))

\* df[c].map(_parse_number).notna().sum()
score(df, c) ==
    Cardinality({i \in 1..Len(df.rows) : notna(_parse_number(df.rows[i][c]))})

RECURSIVE best_col_ge(_, _, _, _, _)
\* a mutation of best_col: score >= best_score, so a column without any
\* number can win
best_col_ge(df, cols, i, best, best_score) ==
    IF i > Len(cols) THEN best
    ELSE IF score(df, cols[i]) >= best_score
         THEN best_col_ge(df, cols, i + 1, cols[i], score(df, cols[i]))
         ELSE best_col_ge(df, cols, i + 1, best, best_score)

RECURSIVE best_col(_, _, _, _, _)
\* the loop over cols of the fallback: the running best and best_score
best_col(df, cols, i, best, best_score) ==
    IF i > Len(cols) THEN best
    ELSE IF score(df, cols[i]) > best_score
         THEN best_col(df, cols, i + 1, cols[i], score(df, cols[i]))
         ELSE best_col(df, cols, i + 1, best, best_score)

\* a mutation of amount_col_of: the fallback takes the first column that has
\* a number, not the one that has most
amount_col_of_first(df) ==
    IF find_amount_col(df.columns) # NoCol THEN find_amount_col(df.columns)
    ELSE FirstCol(df.columns, {c \in Range(df.columns) : score(df, c) > 0})

\* the amount column parse_report settles on
amount_col_of(df) ==
    IF find_amount_col(df.columns) # NoCol THEN find_amount_col(df.columns)
    ELSE best_col(df, df.columns, 1, NoCol, 0)

\* a mutation of qty_of: a quantity that is not positive is kept
qty_of_keep(df_row, qty_col) ==
    IF qty_col # NoCol
    THEN LET q == _parse_number(df_row[qty_col])
         IN  IF notna(q) THEN Val(q) ELSE Scale
    ELSE Scale

\* the _qty of a row: the parsed quantity cell, 1 when the column is absent,
\* the cell does not parse or the value is not positive
qty_of(df_row, qty_col) ==
    IF qty_col # NoCol
    THEN LET q == _parse_number(df_row[qty_col])
             filled == IF notna(q) THEN Val(q) ELSE Scale
         IN  IF filled <= 0 THEN Scale ELSE filled
    ELSE Scale

\* the _sku of a row
sku_of(df_row, sku_col) ==
    IF sku_col # NoCol THEN Strip(str(df_row[sku_col])) ELSE <<>>

\* the rows of df with their _amount, _sku and _qty columns
with_columns(df, amount_col, sku_col, qty_col) ==
    [i \in 1..Len(df.rows) |->
        [_amount |-> _parse_number(df.rows[i][amount_col]),
         _sku |-> sku_of(df.rows[i], sku_col),
         _qty |-> qty_of(df.rows[i], qty_col)]]

\* a mutation of keep_parsed: no row is dropped, a failed amount is zero
keep_parsed_all(rows) ==
    [i \in 1..Len(rows) |->
        [_amount |-> IF notna(rows[i]._amount) THEN Val(rows[i]._amount) ELSE 0,
         _sku |-> rows[i]._sku,
         _qty |-> rows[i]._qty]]

\* df[df["_amount"].notna()]: the rows whose amount parsed, _amount a number
keep_parsed(rows) ==
    LET Parsed(r) == notna(r._amount)
        kept == SelectSeq(rows, Parsed)
    IN  [i \in 1..Len(kept) |->
            [_amount |-> Val(kept[i]._amount),
             _sku |-> kept[i]._sku,
             _qty |-> kept[i]._qty]]

\* df.groupby("_sku")[col].sum(): a Series, key -> sum
groupby_sum(rows, col) ==
    [k \in {rows[i]._sku : i \in 1..Len(rows)} |->
        Sum([i \in 1..Len(rows) |->
                IF rows[i]._sku = k THEN rows[i][col] ELSE 0])]

\* a mutation of revenue_of: the mask _amount > 0 is forgotten
revenue_of_all(rows) ==
    Sum([i \in 1..Len(rows) |-> rows[i]._amount])

\* df.loc[df["_amount"] > 0, "_amount"].sum()
revenue_of(rows) ==
    Sum([i \in 1..Len(rows) |->
            IF rows[i]._amount > 0 THEN rows[i]._amount ELSE 0])

\* df.loc[df["_amount"] < 0, "_amount"].sum()
deductions_of(rows) ==
    Sum([i \in 1..Len(rows) |->
            IF rows[i]._amount < 0 THEN rows[i]._amount ELSE 0])

\* df["_amount"].sum()
total_of(rows) ==
    Sum([i \in 1..Len(rows) |-> rows[i]._amount])

\* parse_report: [ok |-> FALSE, error] when it raises, the parsed report
\* otherwise
parse_report(doc) ==
    LET df == load_table(doc)
        amount_col == amount_col_of(df)
        sku_col == find_sku_col(df.columns)
        qty_col == find_qty_col(df.columns)
        rows == keep_parsed(with_columns(df, amount_col, sku_col, qty_col))
    IN  IF empty(df) THEN [ok |-> FALSE, error |-> "empty file"]
        ELSE IF amount_col = NoCol
        THEN [ok |-> FALSE, error |-> "no amount column"]
        ELSE [ok |-> TRUE,
              df |-> rows,
              total |-> total_of(rows),
              revenue |-> revenue_of(rows),
              deductions |-> deductions_of(rows),
              by_sku_amount |-> IF sku_col # NoCol
                                THEN Some(groupby_sum(rows, "_amount")) ELSE None,
              amount_col |-> amount_col,
              sku_col |-> sku_col,
              qty_col |-> qty_col]

(***************************************************************************)
(* The net-profit arithmetic of handle_document.                           *)
(***************************************************************************)
\* a mutation of unit_cost: a missing SKU costs the catalog's first entry
unit_cost_first(cogs_map, s) ==
    IF s \in DOMAIN cogs_map THEN cogs_map[s]
    ELSE cogs_map[CHOOSE k \in DOMAIN cogs_map : TRUE]

\* cogs_map.get(s, 0.0)
unit_cost(cogs_map, s) ==
    IF s \in DOMAIN cogs_map THEN cogs_map[s] ELSE 0

\* the rows with a non-empty _sku, each with its _cogs and _cogs_sum
with_cogs(rows, cogs_map) ==
    LET HasSku(r) == Len(r._sku) > 0
        kept == SelectSeq(rows, HasSku)
    IN  [i \in 1..Len(kept) |->
            [_amount |-> kept[i]._amount,
             _sku |-> kept[i]._sku,
             _qty |-> kept[i]._qty,
             _cogs |-> unit_cost(cogs_map, kept[i]._sku),
             _cogs_sum |-> Mul(unit_cost(cogs_map, kept[i]._sku), kept[i]._qty)]]

\* a mutation of cogs_total_of: the cost of the first row is left out
cogs_total_of_tail(rows) ==
    IF rows = <<>> THEN 0
    ELSE Sum([i \in 1..Len(rows) - 1 |-> rows[i + 1]._cogs_sum])

\* df["_cogs_sum"].sum()
cogs_total_of(rows) ==
    Sum([i \in 1..Len(rows) |-> rows[i]._cogs_sum])

\* the number num/den
Ratio(num, den) == [num |-> num, den |-> den]
Zero == Ratio(0, 1)

\* a < k for a ratio a and an integer k
Less(a, k) == a.num < k * a.den

\* a mutation of margin_of: the guard revenue > 0 is forgotten
margin_of_unguarded(net_profit, revenue) ==
    Ratio(net_profit * 100, revenue)

\* (net_profit / revenue * 100.0) if revenue > 0 else 0.0
margin_of(net_profit, revenue) ==
    IF revenue > 0 THEN Ratio(net_profit * 100, revenue) ELSE Zero

\* a mutation of status_of: a margin of exactly 15 is still yellow
status_of_strict(net_profit, margin) ==
    IF net_profit <= 0 THEN "red"
    ELSE IF ~Less(margin, 15) /\ margin.num # 15 * margin.den THEN "green"
         ELSE "yellow"

\* the status of a net-profit result
status_of(net_profit, margin) ==
    IF net_profit <= 0 THEN "red"
    ELSE IF Less(margin, 15) THEN "yellow" ELSE "green"

\* the status of a marketplace-money result
status_mp(net_mp) == IF net_mp > 0 THEN "green" ELSE "red"

(***************************************************************************)
(* The state of the bot.                                                   *)
(***************************************************************************)
Users == {"u1", "u2"}

VARIABLES
    user_data,        \* context.user_data of each user: a dict
    cogs,             \* the cogs table: for each tg_id, sku -> cogs
    profit_reports,   \* the profit_reports table: the rows, oldest first
    reply,            \* the reply_text of the last update handled
    last,             \* the last update handled, and what it met
    tasks,            \* the handle_document coroutines that have not returned
    files             \* TMP_DIR: the files downloaded and not read yet

vars == <<user_data, cogs, profit_reports, reply, last, tasks, files>>

\* an empty dict
Empty == <<>>

\* d.get(k) is truthy
Truthy(d, k) == k \in DOMAIN d /\ d[k] = TRUE

\* d.get("mode", "mp_money")
mode_of(d) == IF "mode" \in DOMAIN d THEN d["mode"] ELSE "mp_money"

get_cogs_map(tg_id) == cogs[tg_id]

\* a mutation of upsert_cogs: the row is written without its tg_id, for
\* every owner
upsert_cogs_shared(table, tg_id, sku, cogs_val) ==
    [u \in DOMAIN table |->
        [k \in DOMAIN table[u] \cup {sku} |->
            IF k = sku THEN cogs_val ELSE table[u][k]]]

\* a mutation of upsert_cogs: a row that exists is kept as it is
upsert_cogs_keep(table, tg_id, sku, cogs_val) ==
    [table EXCEPT ![tg_id] =
        [k \in DOMAIN @ \cup {sku} |->
            IF k \in DOMAIN @ THEN @[k] ELSE cogs_val]]

\* the table after INSERT ... ON CONFLICT(tg_id, sku) DO UPDATE
upsert_cogs(table, tg_id, sku, cogs_val) ==
    [table EXCEPT ![tg_id] =
        [k \in DOMAIN @ \cup {sku} |-> IF k = sku THEN cogs_val ELSE @[k]]]

\* a mutation of save_report: the margin is not written
save_report_no_margin(table, tg_id, payload) ==
    Append(table, [k \in (DOMAIN payload \cup {"tg_id"}) \ {"margin"} |->
                      IF k = "tg_id" THEN tg_id ELSE payload[k]])

\* the table after save_report: payload's keys, the missing ones NULL
save_report(table, tg_id, payload) ==
    Append(table, [k \in DOMAIN payload \cup {"tg_id"} |->
                      IF k = "tg_id" THEN tg_id ELSE payload[k]])

(***************************************************************************)
(* The cost upload of handle_document.                                     *)
(***************************************************************************)
\* fields[key] of {_norm(x): x for x in reader.fieldnames}: the position of
\* the last field whose normal form is key, 0 when there is none
field_of(cols, key) ==
    LET hits == {i \in 1..Len(cols) : _norm(cols[i]) = key}
    IN  IF hits = {} THEN 0 ELSE Max(hits)

RECURSIVE upload_rows(_, _, _, _, _, _, _, _)
\* the loop over the rows i..n of the reader: the table and the count
upload_rows(table, count, tg_id, rows, sku_key, cogs_key, i, n) ==
    IF i > n THEN [table |-> table, count |-> count]
    ELSE LET sku == Strip(rows[i][sku_key])
             cogs_val == _parse_number(rows[i][cogs_key])
         IN  IF Len(sku) = 0 \/ ~notna(cogs_val)
             THEN upload_rows(table, count, tg_id, rows, sku_key, cogs_key,
                              i + 1, n)
             ELSE upload_rows(upsert_cogs(table, tg_id, sku, Val(cogs_val)),
                              count + 1, tg_id, rows, sku_key, cogs_key,
                              i + 1, n)

\* a mutation of upload_cogs: the rows are counted and never written
upload_cogs_unsaved(table, tg_id, doc) ==
    LET sku_key == field_of(doc.cols, "sku")
        cogs_key == field_of(doc.cols, "cogs")
        n == IF doc.err_row > 0 THEN doc.err_row - 1 ELSE Len(doc.rows)
        done == upload_rows(table, 0, tg_id, doc.rows, sku_key, cogs_key, 1, n)
    IN  IF Len(doc.cols) = 0 \/ sku_key = 0 \/ cogs_key = 0 \/ doc.err_row > 0
        THEN [ok |-> FALSE, table |-> table, error |-> "error"]
        ELSE [ok |-> TRUE, table |-> table, count |-> done.count]

\* the try block of the cost upload: the table it leaves, and whether it
\* ended without raising
upload_cogs(table, tg_id, doc) ==
    LET sku_key == field_of(doc.cols, "sku")
        cogs_key == field_of(doc.cols, "cogs")
        n == IF doc.err_row > 0 THEN doc.err_row - 1 ELSE Len(doc.rows)
        done == upload_rows(table, 0, tg_id, doc.rows, sku_key, cogs_key, 1, n)
    IN  IF Len(doc.cols) = 0
        THEN [ok |-> FALSE, table |-> table, error |-> "no header"]
        ELSE IF sku_key = 0 \/ cogs_key = 0
        THEN [ok |-> FALSE, table |-> table, error |-> "need sku,cogs"]
        ELSE IF doc.err_row > 0
        THEN [ok |-> FALSE, table |-> done.table, error |-> "read error"]
        ELSE [ok |-> TRUE, table |-> done.table, count |-> done.count]

(***************************************************************************)
(* handle_document: what it leaves, as a record of the new user_data of    *)
(* the user, cogs table, profit_reports table and the reply.               *)
(***************************************************************************)
Outcome(data, ctable, rtable, msg) ==
    [user_data |-> data, cogs |-> ctable, profit_reports |-> rtable,
     reply |-> msg, locals |-> <<>>]

\* the same, with the handler's local variables that the reply does not show
OutcomeWith(out, locals) == [out EXCEPT !.locals = locals]

\* the note of a report: the columns parse_report settled on
note_of(parsed, prefix) ==
    [prefix |-> prefix, amount_col |-> parsed.amount_col,
     sku_col |-> parsed.sku_col, qty_col |-> parsed.qty_col]

\* branch 1: the session awaits a cost file
document_cogs(tg_id, doc) ==
    LET up == upload_cogs(cogs, tg_id, doc)
    IN  IF doc.suffix # ".csv"
        THEN Outcome(user_data[tg_id], cogs, profit_reports,
                     [kind |-> "need_csv"])
        ELSE IF up.ok
        THEN Outcome(Empty, up.table, profit_reports,
                     [kind |-> "cogs_loaded", count |-> up.count])
        ELSE Outcome(user_data[tg_id], up.table, profit_reports,
                     [kind |-> "cogs_error", error |-> up.error])

\* the marketplace-money result of a parsed report
report_mp_money(tg_id, doc, parsed) ==
    Outcome(Empty, cogs,
            save_report(profit_reports, tg_id,
                        [mode |-> "mp_money",
                         file_name |-> doc.suffix,
                         revenue |-> parsed.revenue,
                         deductions |-> parsed.deductions,
                         net_mp |-> parsed.total,
                         note |-> note_of(parsed, "")]),
            [kind |-> "mp_money",
             revenue |-> parsed.revenue,
             deductions |-> parsed.deductions,
             net_mp |-> parsed.total,
             status |-> status_mp(parsed.total),
             note |-> note_of(parsed, ""),
             by_sku |-> parsed.by_sku_amount])

\* the net-profit result of a parsed report
report_net_profit(tg_id, doc, parsed) ==
    LET cogs_map == get_cogs_map(tg_id)
        df == with_cogs(parsed.df, cogs_map)
        cogs_total == cogs_total_of(df)
        net_profit == parsed.total - cogs_total
        margin == margin_of(net_profit, parsed.revenue)
        amt_by_sku == groupby_sum(df, "_amount")
        cogs_by_sku == groupby_sum(df, "_cogs_sum")
    IN  IF DOMAIN cogs_map = {}
        THEN Outcome(Empty, cogs,
                     save_report(profit_reports, tg_id,
                                 [mode |-> "net_profit",
                                  file_name |-> doc.suffix,
                                  revenue |-> parsed.revenue,
                                  deductions |-> parsed.deductions,
                                  net_mp |-> parsed.total,
                                  note |-> note_of(parsed, "NO_COGS")]),
                     [kind |-> "no_cogs",
                      net_mp |-> parsed.total,
                      status |-> status_mp(parsed.total)])
        ELSE IF df = <<>>
        THEN Outcome(Empty, cogs, profit_reports, [kind |-> "no_sku"])
        ELSE OutcomeWith(Outcome(Empty, cogs,
                     save_report(profit_reports, tg_id,
                                 [mode |-> "net_profit",
                                  file_name |-> doc.suffix,
                                  revenue |-> parsed.revenue,
                                  deductions |-> parsed.deductions,
                                  net_mp |-> parsed.total,
                                  cogs_total |-> cogs_total,
                                  net_profit |-> net_profit,
                                  margin |-> margin,
                                  note |-> note_of(parsed, "")]),
                     [kind |-> "net_profit",
                      net_mp |-> parsed.total,
                      cogs_total |-> cogs_total,
                      net_profit |-> net_profit,
                      margin |-> margin,
                      status |-> status_of(net_profit, margin),
                      note |-> note_of(parsed, ""),
                      profit_by_sku |->
                          [k \in DOMAIN amt_by_sku |->
                              amt_by_sku[k] - cogs_by_sku[k]]]),
                     [amt_by_sku |-> amt_by_sku,
                      cogs_by_sku |-> cogs_by_sku])

\* out, with the local variable parsed among its locals
with_parsed(out, parsed) ==
    OutcomeWith(out, [v \in DOMAIN out.locals \cup {"parsed"} |->
                         IF v = "parsed" THEN parsed ELSE out.locals[v]])

\* a mutation of report_result: a report that fails to parse ends the
\* session
report_result_clear(tg_id, doc, mode, parsed) ==
    IF ~parsed.ok
    THEN Outcome(Empty, cogs, profit_reports,
                 [kind |-> "parse_error", error |-> parsed.error])
    ELSE with_parsed(IF mode = "mp_money"
                     THEN report_mp_money(tg_id, doc, parsed)
                     ELSE report_net_profit(tg_id, doc, parsed),
                     parsed)

\* branch 2 from the try block on: parsed is what parse_report returned
report_result(tg_id, doc, mode, parsed) ==
    IF ~parsed.ok
    THEN Outcome(user_data[tg_id], cogs, profit_reports,
                 [kind |-> "parse_error", error |-> parsed.error])
    ELSE with_parsed(IF mode = "mp_money"
                     THEN report_mp_money(tg_id, doc, parsed)
                     ELSE report_net_profit(tg_id, doc, parsed),
                     parsed)

\* branch 2: the session awaits a report
document_report(tg_id, doc) ==
    IF doc.suffix \notin {".xlsx", ".xls", ".csv"}
    THEN Outcome(user_data[tg_id], cogs, profit_reports,
                 [kind |-> "need_report_file"])
    ELSE report_result(tg_id, doc, mode_of(user_data[tg_id]),
                       parse_report(doc))

\* a mutation of handle_document: a document that is not awaited is read as
\* a report
handle_document_any(tg_id, doc) ==
    IF Truthy(user_data[tg_id], "await_cogs")
    THEN document_cogs(tg_id, doc)
    ELSE document_report(tg_id, doc)

handle_document(tg_id, doc) ==
    IF Truthy(user_data[tg_id], "await_cogs")
    THEN document_cogs(tg_id, doc)
    ELSE IF Truthy(user_data[tg_id], "await_report")
    THEN document_report(tg_id, doc)
    ELSE Outcome(user_data[tg_id], cogs, profit_reports,
                 [kind |-> "not_awaiting"])

(***************************************************************************)
(* The inputs the model enumerates.                                        *)
(***************************************************************************)
\* the texts a cell of a column may hold, by the column's label; <<>> is an
\* empty cell
CellsOf(label) ==
    CASE label = "sku" -> {<<"A">>, <<"B">>}
      [] label = "Artikul" -> {<<"A">>, <<" ">>, <<>>}
      [] label = "Itogo" -> {<<"2", "0">>, <<"-", "1", ",", "5">>, <<"x">>}
      [] label = "Summa" -> {<<"2", "0">>, <<"x">>, <<>>}
      [] label \in {"Kol-vo", "Itogo kol-vo"} -> {<<"2">>, <<"0">>, <<"x">>}
      [] label = "cogs" -> {<<"1", "7">>, <<"-", "5">>, <<"x">>}
      [] label = "Data" -> {<<"7">>, <<"x">>}
      [] label = "SKU" -> {<<"A">>}
      [] label = "Amount" -> {<<"2", "0">>, <<"x">>}
      [] label = "Cogs" -> {<<"1", "7">>}

\* the rows of a table with the columns cols
RowsOf(cols) ==
    {r \in [1..Len(cols) -> UNION {CellsOf(c) : c \in Range(cols)}] :
        \A j \in 1..Len(cols) : r[j] \in CellsOf(cols[j])}

\* the documents with a header row out of layouts and at most n data rows;
\* with errs, also those whose strict read raises at some row
Documents(layouts, suffixes, n, errs) ==
    UNION {UNION {{[suffix |-> sfx, cols |-> cols, rows |-> rows,
                    err_row |-> e] :
                      sfx \in suffixes, rows \in [1..k -> RowsOf(cols)],
                      e \in IF errs THEN 0..k ELSE {0}} :
                  k \in 0..n} :
           cols \in layouts}

\* the header rows of the reports
ReportLayouts ==
    {<<"sku", "Itogo", "Kol-vo">>, <<"Artikul", "Summa">>, <<"Itogo">>,
     <<"sku", "Data">>, <<"sku">>, <<"Summa", "Itogo kol-vo">>,
     <<"Data", "Kol-vo">>}

\* the cost catalogs of one owner
Catalogs ==
    UNION {[keys -> {17 * Scale, 0 - 5 * Scale}] :
             keys \in SUBSET {<<"A">>, <<"B">>}}

\* the buttons of the keyboards, and a text that is no button
Texts ==
    {"menu", "profit", "mp_money", "net_profit", "upload_cogs", "other"}

\* the documents sent to the bot
BotDocuments ==
    Documents({<<"SKU", "Cogs">>}, {".csv"}, MaxBotRows, TRUE)
      \cup Documents({<<"SKU", "Amount">>}, {".csv"}, MaxBotRows, FALSE)
      \cup Documents({<<"Data">>}, {".txt"}, 0, FALSE)

\* the reports sent to a session that awaits one
ReportDocuments ==
    Documents(ReportLayouts, {".csv"}, MaxRows, FALSE)
      \cup Documents({<<"Itogo">>}, {".xlsx", ".txt"}, MaxRows, FALSE)

(***************************************************************************)
(* The handlers.                                                           *)
(***************************************************************************)
Init ==
    /\ user_data = [u \in Users |-> Empty]
    /\ cogs = [u \in Users |-> Empty]
    /\ profit_reports = <<>>
    /\ reply = [kind |-> "none"]
    /\ last = [kind |-> "none"]
    /\ tasks = <<>>
    /\ files = Empty

\* start: /start
Start(u) ==
    /\ user_data' = [user_data EXCEPT ![u] = Empty]
    /\ reply' = [kind |-> "hello"]
    /\ last' = [kind |-> "start", tg_id |-> u, data |-> user_data[u]]
    /\ UNCHANGED <<cogs, profit_reports, tasks, files>>

\* a mutation of button_state: the net-profit button does not set the mode
button_state_no_mode(text) ==
    CASE text = "mp_money" -> [mode |-> "mp_money", await_report |-> TRUE]
      [] text = "net_profit" -> [await_report |-> TRUE]
      [] text = "upload_cogs" -> [await_cogs |-> TRUE]
      [] OTHER -> Empty

\* the session a button leaves
button_state(text) ==
    CASE text = "mp_money" -> [mode |-> "mp_money", await_report |-> TRUE]
      [] text = "net_profit" -> [mode |-> "net_profit", await_report |-> TRUE]
      [] text = "upload_cogs" -> [await_cogs |-> TRUE]
      [] OTHER -> Empty

\* handle_text: a button, or any other text
HandleText(u, text) ==
    /\ IF text \in Texts \ {"other"}
       THEN /\ user_data' = [user_data EXCEPT ![u] = button_state(text)]
            /\ reply' = [kind |-> "button", text |-> text]
       ELSE /\ UNCHANGED user_data
            /\ reply' = IF Truthy(user_data[u], "await_report")
                        THEN [kind |-> "waiting_report"]
                        ELSE IF Truthy(user_data[u], "await_cogs")
                        THEN [kind |-> "waiting_cogs"]
                        ELSE [kind |-> "choose_action"]
    /\ last' = [kind |-> "text", tg_id |-> u, data |-> user_data[u],
                text |-> text]
    /\ UNCHANGED <<cogs, profit_reports, tasks, files>>

\* the state after handle_document returned out; the profit_reports table
\* of the model holds at most MaxReports rows
Handled(u, doc, out) ==
    /\ Len(out.profit_reports) <= MaxReports
    /\ user_data' = [user_data EXCEPT ![u] = out.user_data]
    /\ cogs' = out.cogs
    /\ profit_reports' = out.profit_reports
    /\ reply' = out.reply
    /\ last' = [kind |-> "document", tg_id |-> u, data |-> user_data[u],
                doc |-> doc, cogs_map |-> cogs[u],
                locals |-> out.locals,
                saved |-> Len(out.profit_reports) > Len(profit_reports)]
    /\ UNCHANGED <<tasks, files>>

\* the handler run from its first line to its return, which is how the
\* updates are handled one after the other (see Dispatch)
HandleDocument(u, doc) == Handled(u, doc, handle_document(u, doc))

Next ==
    \/ \E u \in Users : Start(u)
    \/ \E u \in Users, text \in Texts : HandleText(u, text)
    \/ \E u \in Users, doc \in BotDocuments : HandleDocument(u, doc)

Spec == Init /\ [][Next]_vars

(***************************************************************************)
(* A report arrives at a session that awaits one: any report, in either    *)
(* mode, with any cost catalog of the owner.                               *)
(***************************************************************************)
InitReport ==
    \E mode \in {"mp_money", "net_profit"}, cogs_map \in Catalogs,
       doc \in ReportDocuments :
        /\ user_data = [u \in Users |-> IF u = "u1" THEN button_state(mode)
                                        ELSE Empty]
        /\ cogs = [u \in Users |-> IF u = "u1" THEN cogs_map ELSE Empty]
        /\ profit_reports = <<>>
        /\ reply = [kind |-> "button", text |-> mode]
        /\ last = [kind |-> "received", tg_id |-> "u1", doc |-> doc]
        /\ tasks = <<>>
        /\ files = Empty

NextReport ==
    /\ last.kind = "received"
    /\ HandleDocument(last.tg_id, last.doc)

SpecReport == InitReport /\ [][NextReport]_vars

(***************************************************************************)
(* handle_document as a coroutine.  It is suspended at its awaits:         *)
(* get_file, download_to_drive and reply_text.  The lines between two      *)
(* awaits run without interruption on the one thread of the event loop;    *)
(* the loop of the upserts and the read of the catalog lie between         *)
(* download_to_drive and reply_text.                                       *)
(***************************************************************************)
\* most handlers in flight
MaxTasks == 2
\* the latest second the clock shows
MaxSecond == 1

\* a mutation of may_dispatch: Application.builder().concurrent_updates(True)
may_dispatch_concurrent(running) == TRUE

\* main builds the Application without concurrent_updates and adds the
\* handlers as blocking ones: the next update is handled when the handler of
\* the one before has returned
may_dispatch(running) == running = <<>>

\* TMP_DIR / f"cogs_{tg_id}_{ts}.csv", TMP_DIR / f"report_{tg_id}_{ts}{suffix}"
local_path(prefix, tg_id, ts, suffix) == <<prefix, tg_id, ts, suffix>>

\* tasks without its i-th element
Without(seq, i) ==
    [j \in 1..Len(seq) - 1 |-> IF j < i THEN seq[j] ELSE seq[j + 1]]

\* the owner whose updates are in flight
Owners == {"u1"}

\* the files sent while updates are in flight: two cost files that give the
\* SKUs A and B different costs, and a report with a row for each
DispatchDocuments ==
    {[suffix |-> ".csv", cols |-> <<"sku", c[1]>>,
      rows |-> <<<<<<"A">>, c[2]>>, <<<<"B">>, c[2]>>>>, err_row |-> 0] :
        c \in {<<"cogs", <<"1", "7">>>>, <<"cogs", <<"-", "5">>>>,
               <<"Data", <<"7">>>>}}

\* an update with a document arrives: the handler runs up to get_file
Dispatch(u, doc) ==
    /\ may_dispatch(tasks)
    /\ Len(tasks) < MaxTasks
    /\ tasks' = Append(tasks, [tg_id |-> u, doc |-> doc, pc |-> "get_file"])
    /\ UNCHANGED <<user_data, cogs, profit_reports, reply, last, files>>

\* the task after get_file: the branch taken on the session as it is now,
\* up to download_to_drive or to the reply_text of a refusal; ts is the
\* clock
after_get_file(task, data, ts) ==
    LET suffix == task.doc.suffix
    IN  IF Truthy(data, "await_cogs")
        THEN IF suffix # ".csv"
             THEN [task EXCEPT !.pc = "reply_text"] @@
                  [msg |-> [kind |-> "need_csv"]]
             ELSE [task EXCEPT !.pc = "download_to_drive"] @@
                  [branch |-> "cogs",
                   path |-> local_path("cogs", task.tg_id, ts, ".csv")]
        ELSE IF Truthy(data, "await_report")
        THEN IF suffix \notin {".xlsx", ".xls", ".csv"}
             THEN [task EXCEPT !.pc = "reply_text"] @@
                  [msg |-> [kind |-> "need_report_file"]]
             ELSE [task EXCEPT !.pc = "download_to_drive"] @@
                  [branch |-> "report",
                   path |-> local_path("report", task.tg_id, ts, suffix)]
        ELSE [task EXCEPT !.pc = "reply_text"] @@
             [msg |-> [kind |-> "not_awaiting"]]

\* get_file returns
GetFile(i, ts) ==
    /\ tasks[i].pc = "get_file"
    /\ tasks' = [tasks EXCEPT ![i] =
                    after_get_file(@, user_data[@.tg_id], ts)]
    /\ UNCHANGED <<user_data, cogs, profit_reports, reply, last, files>>

\* download_to_drive writes the document of the update to its path
Download(i) ==
    /\ tasks[i].pc = "download_to_drive"
    /\ files' = [p \in DOMAIN files \cup {tasks[i].path} |->
                    IF p = tasks[i].path THEN tasks[i].doc ELSE files[p]]
    /\ tasks' = [tasks EXCEPT ![i].pc = "downloaded"]
    /\ UNCHANGED <<user_data, cogs, profit_reports, reply, last>>

\* the paths the tasks other than the i-th have still to read
paths_awaited(running, i) ==
    {running[j].path : j \in {k \in 1..Len(running) :
        k # i /\ running[k].pc \in {"download_to_drive", "downloaded"}}}

\* the state after the lines from download_to_drive to reply_text, out being
\* what they leave and content what they read at the path of the task
Resumed(i, content, out) ==
    /\ Len(out.profit_reports) <= MaxReports
    /\ user_data' = [user_data EXCEPT ![tasks[i].tg_id] = out.user_data]
    /\ cogs' = out.cogs
    /\ profit_reports' = out.profit_reports
    /\ tasks' = [tasks EXCEPT ![i] = [@ EXCEPT !.pc = "reply_text"] @@
                                     [msg |-> out.reply]]
    /\ files' = [p \in DOMAIN files \cap paths_awaited(tasks, i) |-> files[p]]
    /\ last' = [kind |-> "document", tg_id |-> tasks[i].tg_id,
                data |-> user_data[tasks[i].tg_id],
                doc |-> tasks[i].doc, branch |-> tasks[i].branch,
                content |-> content, cogs_map |-> cogs[tasks[i].tg_id],
                locals |-> out.locals,
                saved |-> Len(out.profit_reports) > Len(profit_reports)]
    /\ UNCHANGED reply

\* download_to_drive returns: the file at the path is read and handled
Resume(i) ==
    /\ tasks[i].pc = "downloaded"
    /\ Resumed(i, files[tasks[i].path],
               IF tasks[i].branch = "cogs"
               THEN document_cogs(tasks[i].tg_id, files[tasks[i].path])
               ELSE document_report(tasks[i].tg_id, files[tasks[i].path]))

\* reply_text returns, and the handler with it
ReplyText(i) ==
    /\ tasks[i].pc = "reply_text"
    /\ reply' = tasks[i].msg
    /\ tasks' = Without(tasks, i)
    /\ UNCHANGED <<user_data, cogs, profit_reports, last, files>>

\* an update with a text arrives: handle_text changes the session before
\* its one await
DispatchText(u, text) ==
    /\ may_dispatch(tasks)
    /\ HandleText(u, text)

NextDispatch ==
    \/ \E u \in Owners, doc \in DispatchDocuments : Dispatch(u, doc)
    \/ \E i \in 1..Len(tasks), ts \in 0..MaxSecond : GetFile(i, ts)
    \/ \E i \in 1..Len(tasks) : Download(i)
    \/ \E i \in 1..Len(tasks) : Resume(i)
    \/ \E i \in 1..Len(tasks) : ReplyText(i)
    \/ \E u \in Owners, text \in {"upload_cogs", "net_profit"} :
          DispatchText(u, text)

SpecDispatch == Init /\ [][NextDispatch]_vars

(***************************************************************************)
(* A cost file arrives at a session that awaits one: rows that repeat a    *)
(* SKU, rows without a SKU and rows without a cost, the columns in either  *)
(* order or one of them missing, with any cost catalog of the owner.       *)
(***************************************************************************)
\* most data rows in a cost file
MaxUploadRows == 3

\* the texts a cell of a cost file may hold
UploadCells(label) ==
    IF label = "sku" THEN {<<"A">>, <<"B", " ">>, <<" ">>}
    ELSE {<<"1", "7">>, <<"2", ",", "5">>, <<"x">>}

UploadRows(cols) ==
    {r \in [1..Len(cols) -> UNION {UploadCells(c) : c \in Range(cols)}] :
        \A j \in 1..Len(cols) : r[j] \in UploadCells(cols[j])}

\* the cost files that are read to their end, those whose read raises at
\* the last row (the rows after the one that raises are never read, so
\* they are left out), a file that is no .csv and a file without a header
UploadDocuments ==
    UNION {UNION {{[suffix |-> ".csv", cols |-> cols, rows |-> rows,
                    err_row |-> 0] : rows \in [1..k -> UploadRows(cols)]} :
                  k \in 0..MaxUploadRows} :
           cols \in {<<"sku", "cogs">>, <<"cogs", "sku">>, <<"sku">>}}
      \cup UNION {{[suffix |-> ".csv", cols |-> <<"sku", "cogs">>,
                    rows |-> rows, err_row |-> k] :
                      rows \in [1..k -> UploadRows(<<"sku", "cogs">>)]} :
                  k \in 1..MaxUploadRows}
      \cup {[suffix |-> ".xlsx", cols |-> <<"sku", "cogs">>,
             rows |-> <<<<<<"A">>, <<"1", "7">>>>>>, err_row |-> 0],
            [suffix |-> ".csv", cols |-> <<>>, rows |-> <<>>, err_row |-> 0]}

InitUpload ==
    \E cogs_map \in Catalogs, doc \in UploadDocuments :
        /\ user_data = [u \in Users |-> IF u = "u1"
                                        THEN button_state("upload_cogs")
                                        ELSE Empty]
        /\ cogs = [u \in Users |-> IF u = "u1" THEN cogs_map
                                   ELSE [k \in {<<"A">>} |-> 17 * Scale]]
        /\ profit_reports = <<>>
        /\ reply = [kind |-> "button", text |-> "upload_cogs"]
        /\ last = [kind |-> "received", tg_id |-> "u1", doc |-> doc]
        /\ tasks = <<>>
        /\ files = Empty

NextUpload ==
    /\ last.kind = "received"
    /\ HandleDocument(last.tg_id, last.doc)

SpecUpload == InitUpload /\ [][NextUpload]_vars

(***************************************************************************)
(* top_lines.  A Series is the sequence of its <<key, value>> pairs, or    *)
(* None.  sort_values is called with its default kind, quicksort, which    *)
(* is not a stable sort: the order it leaves between two equal values is   *)
(* not determined by the code, so sort_values is the set of the orders it  *)
(* may return.                                                             *)
(***************************************************************************)
\* most pairs of a Series
MaxEntities == 3
\* the largest n asked of top_lines
MaxTop == 2

\* the orders of the pairs of series that are sorted by value
sort_values(series, ascending) ==
    {[i \in 1..Len(series) |-> series[f[i]]] :
        f \in {g \in [1..Len(series) -> 1..Len(series)] :
                 /\ \A i, j \in 1..Len(series) : i # j => g[i] # g[j]
                 /\ \A i, j \in 1..Len(series) :
                       i < j => IF ascending
                                THEN series[g[i]][2] <= series[g[j]][2]
                                ELSE series[g[i]][2] >= series[g[j]][2]}}

\* s.head(n)
head(s, n) == SubSeq(s, 1, Min({n, Len(s)}))

\* a line of top_lines: the key, "(pusto)" for a blank one, and the value
line_of(pair) ==
    [key |-> IF Strip(str(pair[1])) = <<>> THEN <<"(pusto)">>
             ELSE Strip(str(pair[1])),
     value |-> pair[2]]

\* top_lines: the texts it may return
top_lines(series, n, ascending) ==
    IF series = None \/ Val(series) = <<>>
    THEN {[kind |-> "no data"]}
    ELSE {[kind |-> "lines",
           lines |-> [i \in 1..Len(head(s, n)) |-> line_of(s[i])]] :
             s \in sort_values(Val(series), ascending)}

\* the Series given to top_lines: None, or pairs with distinct keys
SeriesInputs ==
    {None} \cup
    UNION {{Some(s) : s \in {t \in [1..k -> {<<"A">>, <<"B">>, <<"C">>, <<" ">>} \X
                                            {0 - 150, 0, 2000}] :
                               \A i, j \in 1..k : i # j => t[i][1] # t[j][1]}} :
             k \in 0..MaxEntities}

InitTop ==
    /\ user_data = [u \in Users |-> Empty]
    /\ cogs = [u \in Users |-> Empty]
    /\ profit_reports = <<>>
    /\ reply = [kind |-> "none"]
    /\ \E series \in SeriesInputs, n \in 1..MaxTop, ascending \in BOOLEAN :
          last = [kind |-> "top_lines", series |-> series, n |-> n,
                  ascending |-> ascending]
    /\ tasks = <<>>
    /\ files = Empty

\* top_lines is applied to the Series
TopLines ==
    /\ last.kind = "top_lines" /\ reply.kind = "none"
    /\ reply' \in top_lines(last.series, last.n, last.ascending)
    /\ UNCHANGED <<user_data, cogs, profit_reports, last, tasks, files>>

SpecTop == InitTop /\ [][TopLines]_vars

(***************************************************************************)
(* _parse_number with the float it returns kept as a decimal, so that the  *)
(* text str() gives for it can be formed.  A float is [neg, digits, decpt]:*)
(* its significant digits, without leading or trailing zeros, and the      *)
(* position of the decimal point (0.d1d2..dn * 10^decpt), as in the        *)
(* shortest representation that str() and repr() of a float print; zero    *)
(* has the digits "0" and decpt 1.  Texts of at most MaxText characters    *)
(* have few enough digits for float() and str() to keep them all.          *)
(***************************************************************************)
\* most characters of a text given to the normalizer
MaxText == 7

RECURSIVE LeadingZeros(_)
LeadingZeros(ds) ==
    IF ds # <<>> /\ Head(ds) = "0" THEN 1 + LeadingZeros(Tail(ds)) ELSE 0

RECURSIVE TrailingZeros(_)
TrailingZeros(ds) ==
    IF ds # <<>> /\ ds[Len(ds)] = "0"
    THEN 1 + TrailingZeros(SubSeq(ds, 1, Len(ds) - 1)) ELSE 0

\* the float written by the digits ds with the decimal point after the
\* first p of them
float_of(neg, ds, p) ==
    IF LeadingZeros(ds) = Len(ds)
    THEN [neg |-> neg, digits |-> <<"0">>, decpt |-> 1]
    ELSE [neg |-> neg,
          digits |-> SubSeq(ds, LeadingZeros(ds) + 1,
                            Len(ds) - TrailingZeros(ds)),
          decpt |-> p - LeadingZeros(ds)]

\* float(m.group(0)) of the match that starts at s[i]
float_at(s, i) ==
    LET neg   == s[i] = "-"
        d0    == IF neg THEN i + 1 ELSE i
        d1    == DigitsEnd(s, d0)
        frac  == d1 + 1 <= Len(s) /\ s[d1 + 1] = "." /\ IsDigitAt(s, d1 + 2)
        f1    == IF frac THEN DigitsEnd(s, d1 + 2) ELSE d1
    IN  float_of(neg,
                 SubSeq(s, d0, d1) \o
                    (IF frac THEN SubSeq(s, d1 + 2, f1) ELSE <<>>),
                 d1 - d0 + 1)

Zeros(k) == [i \in 1..k |-> "0"]

DigitChar(d) == <<"0", "1", "2", "3", "4", "5", "6", "7", "8", "9">>[d + 1]

RECURSIVE DigitsOf(_)
\* the decimal digits of a natural number
DigitsOf(k) ==
    IF k < 10 THEN <<DigitChar(k)>>
    ELSE DigitsOf(k \div 10) \o <<DigitChar(k % 10)>>

\* str(v) of a float: exponent notation when the decimal point lies more
\* than 16 places right or more than 3 places left of the first digit
repr_float(v) ==
    LET n    == Len(v.digits)
        sign == IF v.neg THEN <<"-">> ELSE <<>>
        e    == v.decpt - 1
        ee   == DigitsOf(IF e < 0 THEN 0 - e ELSE e)
    IN  sign \o
        (IF v.decpt > 16 \/ v.decpt < 0 - 3
         THEN <<v.digits[1]>> \o
              (IF n > 1 THEN <<".">> \o SubSeq(v.digits, 2, n) ELSE <<>>) \o
              <<"e", IF e < 0 THEN "-" ELSE "+">> \o
              (IF Len(ee) < 2 THEN <<"0">> \o ee ELSE ee)
         ELSE IF v.decpt <= 0
              THEN <<"0", ".">> \o Zeros(0 - v.decpt) \o v.digits
         ELSE IF v.decpt >= n
              THEN v.digits \o Zeros(v.decpt - n) \o <<".", "0">>
         ELSE SubSeq(v.digits, 1, v.decpt) \o <<".">> \o
              SubSeq(v.digits, v.decpt + 1, n))

\* _parse_number of a cell, the float exact
normalize(x) ==
    IF isna(x) THEN None
    ELSE LET s == Strip(Replace(Remove(str(x), {NBSP, " "}), ",", "."))
         IN  IF MatchStarts(s) = {} THEN None
             ELSE Some(float_at(s, Min(MatchStarts(s))))

\* _parse_number of a float it returned: str(x) is the text of the float
renormalize(v) == normalize(repr_float(v))

\* the float in units of 1/Scale, digits beyond them cut off
ToUnits(v) ==
    LET k == Len(v.digits) - v.decpt
        m == DigitsVal(v.digits, 1, Len(v.digits))
        a == IF k <= 0 THEN m * Pow10(0 - k) * Scale
             ELSE (m * Scale) \div Pow10(k)
    IN  IF v.neg THEN 0 - a ELSE a

\* the texts of exactly k characters of cs
TextsOf(cs, k) == [1..k -> cs]

\* what the normalizer is given: the missing value, the texts of digits,
\* sign and separator, and texts with letters, spaces and a comma
NormalizerInputs ==
    {NaN} \cup
    UNION {TextsOf({"0", "7", ".", "-"}, k) : k \in 0..MaxText} \cup
    {<<"1", " ", "0", "0", "0", ",", "5">>,
     <<"x">>, <<"x", "7", "x", "0">>, <<"7", "0", " ", "r", "u", "b">>,
     <<"N", "o", ".", "7", "-", "0", "7">>,
     <<" ", "7", NBSP, "0", "0", "0">>,
     <<"-", " ", "7", ",", "0">>}

InitNormalize ==
    /\ user_data = [u \in Users |-> Empty]
    /\ cogs = [u \in Users |-> Empty]
    /\ profit_reports = <<>>
    /\ reply = [kind |-> "none"]
    /\ \E x \in NormalizerInputs : last = [kind |-> "normalize", x |-> x]
    /\ tasks = <<>>
    /\ files = Empty

\* _parse_number is applied to the input
Normalize ==
    /\ last.kind = "normalize" /\ reply.kind = "none"
    /\ reply' = IF normalize(last.x) = None THEN [kind |-> "not a number"]
                ELSE [kind |-> "number", value |-> Val(normalize(last.x)),
                      times |-> 1]
    /\ UNCHANGED <<user_data, cogs, profit_reports, last, tasks, files>>

\* _parse_number is applied to the number it returned
Renormalize ==
    /\ last.kind = "normalize" /\ reply.kind = "number" /\ reply.times = 1
    /\ reply' = IF renormalize(reply.value) = None
                THEN [kind |-> "not a number"]
                ELSE [kind |-> "number",
                      value |-> Val(renormalize(reply.value)),
                      of |-> reply.value, times |-> 2]
    /\ UNCHANGED <<user_data, cogs, profit_reports, last, tasks, files>>

NextNormalize == Normalize \/ Renormalize

SpecNormalize == InitNormalize /\ [][NextNormalize]_vars

(***************************************************************************)
(* What the properties speak of.                                           *)
(***************************************************************************)
RECURSIVE SumOver(_, _)
\* the sum of f[i] over the i of the finite set S
SumOver(S, f) ==
    IF S = {} THEN 0
    ELSE LET i == CHOOSE j \in S : TRUE IN f[i] + SumOver(S \ {i}, f)

\* a document has been handled, and the session awaited a report
ReportHandled ==
    /\ last.kind = "document"
    /\ Truthy(last.data, "await_report")
    /\ ~Truthy(last.data, "await_cogs")

\* parse_report has accepted the document handled
ReportParsed == ReportHandled /\ "parsed" \in DOMAIN last.locals

\* the document handled as a table, and what parse_report returned for it
Table == load_table(last.doc)
RowIds == 1..Len(last.doc.rows)
Parsed == last.locals.parsed

\* the optional number in column c of row i
NumberAt(i, c) == _parse_number(Table.rows[i][c])

\* the rows whose cell in the amount column normalizes, and their amounts
Normalized == {i \in RowIds : NumberAt(i, Parsed.amount_col) # None}
Amount ==
    LET number == [i \in RowIds |-> NumberAt(i, Parsed.amount_col)]
    IN  [i \in {j \in RowIds : number[j] # None} |-> Val(number[i])]

\* the SKU of row i
SkuAt(i) == sku_of(Table.rows[i], Parsed.sku_col)

\* the quantity of row i: the quantity cell when it parses to a positive
\* number, 1 otherwise
QuantityAt(i) ==
    LET c == Parsed.qty_col
    IN  IF c # NoCol /\ NumberAt(i, c) # None /\ Val(NumberAt(i, c)) > 0
        THEN Val(NumberAt(i, c)) ELSE Scale

\* the cost of goods of row i under the catalog the handler read
CostAt(i) == Mul(unit_cost(last.cogs_map, SkuAt(i)), QuantityAt(i))

\* the row save_report has just inserted
SavedRow == profit_reports[Len(profit_reports)]

(***************************************************************************)
(* C1: for every table parse_report accepts, Revenue is the sum of the     *)
(* strictly positive normalized amounts, Deductions the sum of the         *)
(* strictly negative ones and Net the sum of all of them, so that          *)
(* Net = Revenue + Deductions, Revenue >= 0 and Deductions <= 0; the       *)
(* saved row holds these three numbers.                                    *)
(***************************************************************************)
C1_Totals ==
    ReportParsed =>
        LET amount == Amount
        IN  /\ Parsed.revenue =
                   SumOver({i \in DOMAIN amount : amount[i] > 0}, amount)
            /\ Parsed.deductions =
                   SumOver({i \in DOMAIN amount : amount[i] < 0}, amount)
            /\ Parsed.total = SumOver(DOMAIN amount, amount)
            /\ Parsed.total = Parsed.revenue + Parsed.deductions
            /\ Parsed.revenue >= 0
            /\ Parsed.deductions <= 0
            /\ last.saved =>
                  /\ SavedRow.revenue = Parsed.revenue
                  /\ SavedRow.deductions = Parsed.deductions
                  /\ SavedRow.net_mp = Parsed.total

\* a report with a gain and a loss was totalled and saved
C1_Witness ==
    /\ ReportParsed /\ last.saved
    /\ SavedRow.revenue > 0
    /\ SavedRow.deductions < 0
    /\ SavedRow.net_mp = SavedRow.revenue + SavedRow.deductions

(***************************************************************************)
(* C2: a row whose amount cell does not normalize is in no sum: the rows   *)
(* kept are exactly the normalized ones (none is kept as a zero amount),   *)
(* the per-SKU amount sums have a key only for the SKUs of such rows and   *)
(* add only their amounts, and in net-profit mode the cost of goods, in    *)
(* total and per SKU, is taken over such rows only.                        *)
(***************************************************************************)
C2_Excluded ==
    ReportParsed =>
        LET amount == Amount
            sku == [i \in DOMAIN amount |-> SkuAt(i)]
        IN  /\ Len(Parsed.df) = Cardinality(DOMAIN amount)
            /\ Parsed.by_sku_amount # None =>
                  LET by_sku == Val(Parsed.by_sku_amount)
                  IN  /\ DOMAIN by_sku = {sku[i] : i \in DOMAIN amount}
                      /\ \A k \in DOMAIN by_sku :
                            by_sku[k] =
                               SumOver({i \in DOMAIN amount : sku[i] = k},
                                       amount)
            /\ reply.kind = "net_profit" =>
                  LET Costed == {i \in DOMAIN amount : sku[i] # <<>>}
                      Cost == [i \in Costed |-> CostAt(i)]
                      by_sku == last.locals.cogs_by_sku
                  IN  /\ reply.cogs_total = SumOver(Costed, Cost)
                      /\ DOMAIN by_sku = {sku[i] : i \in Costed}
                      /\ \A k \in DOMAIN by_sku :
                            by_sku[k] =
                               SumOver({i \in Costed : sku[i] = k}, Cost)
                      /\ DOMAIN reply.profit_by_sku = DOMAIN by_sku

\* a net-profit result over a report one of whose rows, with a SKU that has
\* a cost and no other row, does not normalize
C2_Witness ==
    /\ ReportHandled /\ reply.kind = "net_profit"
    /\ \E i \in RowIds \ Normalized :
          /\ SkuAt(i) \in DOMAIN last.cogs_map
          /\ last.cogs_map[SkuAt(i)] # 0
          /\ \A j \in Normalized : SkuAt(j) # SkuAt(i)

(***************************************************************************)
(* C3: a table in which no row has a parsable amount is a definite         *)
(* failure: parse_report raises, and no totals are shown or saved, also    *)
(* when the amount column was chosen by its label.                         *)
(* The code does not do this: see C3_LabelledColumn.                       *)
(***************************************************************************)
\* the file is one the report branch reads
ReportRead == ReportHandled /\ last.doc.suffix \in {".xlsx", ".xls", ".csv"}

\* no label of the table contains an amount keyword
NoAmountLabel ==
    \A c \in Range(Table.columns) :
        \A kw \in {"itogo", "summ", "nachisl", "amount"} : ~Occurs(kw, _norm(c))

\* the column the amount role falls to: the labelled one, else the leftmost
\* of those with the most parsable cells
AmountRole ==
    IF NoAmountLabel
    THEN {c \in Range(Table.columns) : \E i \in RowIds : NumberAt(i, c) # None}
    ELSE {find_amount_col(Table.columns)}

\* no row of the table has a parsable amount
NoUsableRows == \A c \in AmountRole : \A i \in RowIds : NumberAt(i, c) = None

\* the handler ended in a failure reply and saved nothing
Failed ==
    /\ reply.kind \in {"need_report_file", "parse_error", "no_sku"}
    /\ ~last.saved

C3_NoUsableData ==
    (ReportRead /\ NoUsableRows) => (reply.kind = "parse_error" /\ ~last.saved)

\* the column "Itogo" was chosen by its label, none of its cells normalizes,
\* and totals of zero were shown and saved
C3_LabelledColumn ==
    /\ ReportRead /\ NoUsableRows /\ ~NoAmountLabel /\ RowIds # {}
    /\ reply.kind = "mp_money" /\ last.saved
    /\ SavedRow.net_mp = 0

(***************************************************************************)
(* C4: if the sku role or the amount role cannot be resolved, processing   *)
(* ends in a definite failure and no totals are shown or saved.            *)
(* As stated (C4_BothRequired) this fails for the sku role.  Amended       *)
(* (C4_Resolved): an unresolved amount role always ends in the failure     *)
(* reply with nothing saved; an unresolved sku role ends in a definite     *)
(* reply without totals and without a saved row only in net-profit mode    *)
(* with a non-empty cost catalog, and otherwise the totals are shown and   *)
(* saved without a per-SKU breakdown; a table with rows whose amount role  *)
(* resolves never ends in the parse failure, whatever its other columns.   *)
(***************************************************************************)
AmountUnresolved == AmountRole = {}

SkuUnresolved ==
    \A c \in Range(Table.columns) :
        \A kw \in {"sku", "offer", "artikul"} : ~Occurs(kw, _norm(c))

C5_NetProfit ==
    (ReportParsed /\ mode_of(last.data) = "net_profit"
       /\ DOMAIN last.cogs_map # {}) =>
        LET amount == Amount
            Cost == [i \in DOMAIN amount |-> CostAt(i)]
            net == SumOver(DOMAIN amount, amount)
            cogs_total == SumOver(DOMAIN amount, Cost)
        IN  IF \E i \in DOMAIN amount : SkuAt(i) # <<>>
            THEN /\ reply.kind = "net_profit"
                 /\ reply.net_mp = net
                 /\ reply.cogs_total = cogs_total
                 /\ reply.net_profit = net - cogs_total
                 /\ SavedRow.net_profit = net - cogs_total
            ELSE reply.kind = "no_sku"

\* a net-profit result over a row with a quantity above 1 and a row whose
\* quantity cell is zero or no number, both with a cost
C5_Witness ==
    /\ ReportParsed /\ reply.kind = "net_profit"
    /\ Parsed.qty_col # NoCol
    /\ \E i, j \in Normalized :
          /\ QuantityAt(i) > Scale
          /\ NumberAt(j, Parsed.qty_col) \in {None, Some(0)}
          /\ CostAt(i) # 0 /\ CostAt(j) # 0
    /\ reply.net_profit = reply.net_mp - reply.cogs_total

(***************************************************************************)
(* C6: the unit cost of a SKU is its entry in the catalog, and the         *)
(* catalog's default_cost when it has none.                                *)
(* The code does not do this: the cogs table holds no default_cost and a   *)
(* SKU without an entry costs 0.                                           *)
(***************************************************************************)
\* CostCatalog.default_cost: the value of the specification's example
default_cost == 10 * Scale

C6_DefaultCost ==
    (ReportParsed /\ reply.kind = "net_profit") =>
        \A k \in DOMAIN last.locals.cogs_by_sku :
            LET Qty == [i \in Normalized |-> QuantityAt(i)]
                sold == SumOver({i \in Normalized : SkuAt(i) = k}, Qty)
            IN  last.locals.cogs_by_sku[k] =
                    IF k \in DOMAIN last.cogs_map
                    THEN Mul(last.cogs_map[k], sold)
                    ELSE Mul(default_cost, sold)

(***************************************************************************)
(* C7: the per-SKU costs of goods (cogs_by_sku) add up to cogs_total       *)
(* exactly, for every report and every cost catalog.                       *)
(***************************************************************************)
C7_CogsBySku ==
    (ReportParsed /\ reply.kind = "net_profit") =>
        LET by_sku == last.locals.cogs_by_sku
        IN  /\ SumOver(DOMAIN by_sku, by_sku) = reply.cogs_total
            /\ SavedRow.cogs_total = reply.cogs_total

\* a net-profit result over two SKUs, each with a cost of goods
C7_Witness ==
    /\ ReportParsed /\ reply.kind = "net_profit"
    /\ Cardinality(DOMAIN last.locals.cogs_by_sku) = 2
    /\ \A k \in DOMAIN last.locals.cogs_by_sku : last.locals.cogs_by_sku[k] # 0
    /\ reply.cogs_total # 0

(***************************************************************************)
(* C8: Margin = Net_profit / Revenue x 100 when Revenue > 0 and Margin = 0 *)
(* when Revenue <= 0, also when Net_profit is not zero; nothing is ever    *)
(* divided by zero.                                                        *)
(***************************************************************************)
C8_Margin ==
    (ReportParsed /\ reply.kind = "net_profit") =>
        LET margin == reply.margin
            revenue == SavedRow.revenue
        IN  /\ margin.den # 0
            \* margin is the number num/den
            /\ revenue > 0 =>
                  /\ margin.num = reply.net_profit * 100
                  /\ margin.den = revenue
            /\ revenue <= 0 => margin.num = 0
            /\ SavedRow.margin = margin

\* a net-profit result without revenue and with a profit that is not zero
C8_Witness ==
    /\ ReportParsed /\ reply.kind = "net_profit"
    /\ SavedRow.revenue = 0
    /\ reply.net_profit # 0
    /\ reply.margin.num = 0

(***************************************************************************)
(* C9: every net-profit result has one status: red (critical) when the     *)
(* profit is <= 0, yellow (marginal) when the profit is > 0 and the margin *)
(* is < 15, green (healthy) otherwise; a profit > 0 without revenue is     *)
(* yellow, a margin of exactly 15 is green.                                *)
(***************************************************************************)
C9_Status ==
    (ReportParsed /\ reply.kind = "net_profit") =>
        LET profit == reply.net_profit
            revenue == SavedRow.revenue
            \* the margin, 0 without revenue, is below 15
            low == revenue <= 0 \/ profit * 100 < 15 * revenue
        IN  /\ profit <= 0 => reply.status = "red"
            /\ (profit > 0 /\ low) => reply.status = "yellow"
            /\ (profit > 0 /\ ~low) => reply.status = "green"

\* a net-profit result with a profit and no revenue, classified yellow
C9_Witness ==
    /\ ReportParsed /\ reply.kind = "net_profit"
    /\ reply.net_profit > 0
    /\ SavedRow.revenue <= 0
    /\ reply.status = "yellow"

(***************************************************************************)
(* C10: a report handled while the session awaits one ends either with a   *)
(* full result, in net-profit mode net, cogs_total, net_profit and margin  *)
(* all shown and all in the saved row, or with a failure reply and no      *)
(* saved row.                                                              *)
(* As stated (C10_FullOrFailure) this fails when the owner has no cost     *)
(* catalog.  Amended (C10_Outcomes): there is a third outcome, in          *)
(* net-profit mode with an empty cost catalog: the net alone is shown and  *)
(* the row is saved with the note NO_COGS and without cogs_total,          *)
(* net_profit and margin.  Every other outcome is a result shown and saved *)
(* in full, or a failure reply and no saved row.                           *)
(***************************************************************************)
\* the row holds the numbers of every mode, equal to those shown
RowOfTotals ==
    /\ last.saved
    /\ Len(profit_reports) = 1
    /\ SavedRow.tg_id = last.tg_id
    /\ SavedRow.mode = mode_of(last.data)
    /\ {"revenue", "deductions", "net_mp"} \subseteq DOMAIN SavedRow
    /\ SavedRow.net_mp = reply.net_mp

\* the result of net-profit mode, shown and saved in full
FullNetProfit ==
    /\ reply.kind = "net_profit"
    /\ RowOfTotals
    /\ {"cogs_total", "net_profit", "margin"} \subseteq DOMAIN SavedRow
    /\ {"net_mp", "cogs_total", "net_profit", "margin"} \subseteq DOMAIN reply
    /\ SavedRow.cogs_total = reply.cogs_total
    /\ SavedRow.net_profit = reply.net_profit
    /\ SavedRow.margin = reply.margin

\* the result of marketplace-money mode, shown and saved
FullMpMoney ==
    /\ reply.kind = "mp_money"
    /\ RowOfTotals
    /\ SavedRow.revenue = reply.revenue
    /\ SavedRow.deductions = reply.deductions

\* the net alone, shown and saved without the cost figures
NetWithoutCogs ==
    /\ reply.kind = "no_cogs"
    /\ RowOfTotals
    /\ DOMAIN SavedRow \cap {"cogs_total", "net_profit", "margin"} = {}
    /\ SavedRow.note.prefix = "NO_COGS"

C10_FullOrFailure ==
    ReportHandled =>
        \/ Failed /\ profit_reports = <<>>
        \/ mode_of(last.data) = "mp_money" /\ FullMpMoney
        \/ mode_of(last.data) = "net_profit" /\ FullNetProfit

C10_Outcomes ==
    ReportHandled =>
        \/ Failed /\ profit_reports = <<>>
        \/ mode_of(last.data) = "mp_money" /\ FullMpMoney
        \/ /\ mode_of(last.data) = "net_profit"
           /\ IF DOMAIN last.cogs_map = {} THEN NetWithoutCogs
              ELSE FullNetProfit

\* a net-profit result, shown and saved in full
C10_Witness == ReportHandled /\ FullNetProfit

(***************************************************************************)
(* C11: the writes of two handlers to the cost catalog of one owner never  *)
(* interleave: a cost upload reads its file, writes its rows and ends as   *)
(* if it ran alone, so that the catalog is always the result of whole      *)
(* uploads run one after the other, and a report reads a catalog that no   *)
(* upload has half written.                                                *)
(***************************************************************************)
\* the cogs table in which the catalog of tg_id is cogs_map
TableOf(tg_id, cogs_map) ==
    [u \in Users |-> IF u = tg_id THEN cogs_map ELSE Empty]

RECURSIVE Serial(_)
\* the catalogs that at most n cost uploads, run one after the other, leave
Serial(n) ==
    IF n = 0 THEN {Empty}
    ELSE Serial(n - 1) \cup
         {upload_cogs(TableOf("u1", c), "u1", d).table["u1"] :
            c \in Serial(n - 1),
            d \in {f \in DispatchDocuments : field_of(f.cols, "cogs") # 0}}

\* a handler has resumed after download_to_drive
Resumption == last.kind = "document" /\ "branch" \in DOMAIN last

C11_Exclusive ==
    /\ Len(tasks) <= 1
    /\ \A u \in Owners : cogs[u] \in Serial(2)
    /\ Resumption =>
          /\ last.content = last.doc
          /\ last.cogs_map \in Serial(2)
          /\ cogs[last.tg_id] =
                IF last.branch = "cogs"
                THEN upload_cogs(TableOf(last.tg_id, last.cogs_map),
                                 last.tg_id, last.doc).table[last.tg_id]
                ELSE last.cogs_map
          /\ (last.branch = "report" /\ "cogs_by_sku" \in DOMAIN last.locals) =>
                \A k \in DOMAIN last.locals.cogs_by_sku :
                    last.locals.cogs_by_sku[k] = unit_cost(last.cogs_map, k)

\* a cost upload has replaced the catalog that an earlier upload of the same
\* owner left
C11_Witness ==
    /\ Resumption /\ last.branch = "cogs"
    /\ last.cogs_map # Empty
    /\ cogs[last.tg_id] # last.cogs_map
    /\ cogs[last.tg_id] \in Serial(2)

(***************************************************************************)
(* C12: a cost upload of one owner leaves the catalog of every other owner *)
(* as it was, and the net-profit result of an owner is computed from the   *)
(* catalog of that owner alone, whatever the other owners have uploaded.   *)
(***************************************************************************)
\* the catalog the handler read is the owner's own, and the result is the
\* one that catalog gives
OwnCatalog ==
    (ReportParsed /\ mode_of(last.data) = "net_profit") =>
        LET amount == Amount
            Cost == [i \in DOMAIN amount |-> CostAt(i)]
        IN  /\ reply.kind = "no_cogs" <=> last.cogs_map = Empty
            /\ reply.kind = "net_profit" =>
                  /\ reply.cogs_total = SumOver(DOMAIN amount, Cost)
                  /\ reply.net_profit =
                        Parsed.total - SumOver(DOMAIN amount, Cost)

\* a step changes the catalog of the owner who sent a cost file, and of
\* nobody else; the catalog a handler reads is the sender's
OwnWrites ==
    /\ \A y \in Users :
          cogs'[y] # cogs[y] =>
              /\ last'.kind = "document" /\ last'.tg_id = y
              /\ Truthy(user_data[y], "await_cogs")
    /\ last'.kind = "document" => last'.cogs_map = cogs[last'.tg_id]

C12_Isolated == []OwnCatalog /\ [][OwnWrites]_vars

\* an owner without a catalog is given the reply of the empty catalog
\* while another owner has costs for the SKUs of the report
C12_Witness ==
    /\ ReportParsed /\ reply.kind = "no_cogs"
    /\ \E x \in Users \ {last.tg_id} :
          /\ cogs[x] # Empty
          /\ \E i \in Normalized : SkuAt(i) \in DOMAIN cogs[x]

(***************************************************************************)
(* C13: the cost catalog is changed by the cost upload alone: a report, in *)
(* either mode, accepted or refused, and every text and /start leave the   *)
(* catalog of every owner as it was; what an upload has written is what    *)
(* the next get_cogs_map of the owner returns.                             *)
(***************************************************************************)
\* the rows of a cost file that the upload writes: those with a SKU and a
\* cost that is a number
Upserted(doc) ==
    {i \in 1..Len(doc.rows) :
        /\ Len(Strip(doc.rows[i][field_of(doc.cols, "sku")])) > 0
        /\ _parse_number(doc.rows[i][field_of(doc.cols, "cogs")]) # None}

\* the step is the handler of a document of y, whose session had flag set
Handles(y, flag) ==
    /\ last'.kind = "document" /\ last'.tg_id = y
    /\ Truthy(user_data[y], flag)

CatalogFrame ==
    /\ (\A y \in Users : ~Handles(y, "await_cogs")) => cogs' = cogs
    /\ \A y \in Users :
          /\ (Handles(y, "await_cogs") /\ reply'.kind = "cogs_loaded") =>
                \A i \in Upserted(last'.doc) :
                    Strip(last'.doc.rows[i][field_of(last'.doc.cols, "sku")])
                       \in DOMAIN get_cogs_map(y)'
          /\ (Handles(y, "await_report") /\ ~Handles(y, "await_cogs")) =>
                last'.cogs_map = get_cogs_map(y)

C13_UploadOnly == [][CatalogFrame]_vars

\* a report was totalled and saved, and the catalog that an upload had left
\* is as the handler found it
C13_Witness ==
    /\ ReportParsed /\ last.saved
    /\ last.cogs_map # Empty
    /\ get_cogs_map(last.tg_id) = last.cogs_map

(***************************************************************************)
(* C14: when no label contains an amount keyword, the amount column is a   *)
(* column with the most cells that parse as numbers, the leftmost of       *)
(* those; when no column has such a cell there is no amount column and the *)
(* report is refused.                                                      *)
(***************************************************************************)
\* the number of cells of the j-th column that parse as numbers
Count(j) ==
    Cardinality({i \in RowIds : NumberAt(i, Table.columns[j]) # None})

C14_Fallback ==
    (ReportRead /\ NoAmountLabel /\ RowIds # {}) =>
        LET count == [j \in 1..Len(Table.columns) |-> Count(j)]
            most == Max({count[j] : j \in DOMAIN count})
        IN  IF most = 0
            THEN reply.kind = "parse_error" /\ ~last.saved
            ELSE /\ ReportParsed
                 /\ \E j \in DOMAIN count :
                       /\ Table.columns[j] = Parsed.amount_col
                       /\ count[j] = most
                       /\ \A k \in 1..j - 1 : count[k] < most

\* the fallback chose the second column, which has more numbers than the
\* first, which has one
C14_Witness ==
    /\ ReportParsed /\ NoAmountLabel
    /\ Len(Table.columns) = 2
    /\ Parsed.amount_col = Table.columns[2]
    /\ Count(1) > 0
    /\ Count(2) > Count(1)

\* the two columns have as many numbers, and the fallback chose the first
C14_Tie ==
    /\ ReportParsed /\ NoAmountLabel
    /\ Len(Table.columns) = 2
    /\ Count(1) = Count(2) /\ Count(1) > 0
    /\ Parsed.amount_col = Table.columns[1]

(***************************************************************************)
(* C15: top_lines returns, for a Series that is not empty, min(n, number   *)
(* of entities) lines: the n largest in non-increasing order when          *)
(* ascending is false, the n smallest in non-decreasing order when it is   *)
(* true, entities of equal value in the order in which they occur in the   *)
(* Series; for a missing or empty Series it returns "no data".             *)
(* The code does not fix the order of equal values: see C15_TieSwapped.    *)
(***************************************************************************)
\* the positions of the Series in the order of the claim: by value, equal
\* values in order of occurrence
Ranked(series, ascending) ==
    CHOOSE f \in [1..Len(series) -> 1..Len(series)] :
        /\ \A i, j \in 1..Len(series) : i # j => f[i] # f[j]
        /\ \A i, j \in 1..Len(series) :
              i < j =>
                 \/ IF ascending THEN series[f[i]][2] < series[f[j]][2]
                    ELSE series[f[i]][2] > series[f[j]][2]
                 \/ series[f[i]][2] = series[f[j]][2] /\ f[i] < f[j]

C15_TopLines ==
    (last.kind = "top_lines" /\ reply.kind # "none") =>
        IF last.series = None \/ Val(last.series) = <<>>
        THEN reply.kind = "no data"
        ELSE LET series == Val(last.series)
                 f == Ranked(series, last.ascending)
             IN  /\ reply.kind = "lines"
                 /\ Len(reply.lines) = Min({last.n, Len(series)})
                 /\ \A i \in 1..Len(reply.lines) :
                       reply.lines[i] = line_of(series[f[i]])

\* two lines of equal value, the entity that occurs later in the Series
\* first
C15_TieSwapped ==
    /\ last.kind = "top_lines" /\ reply.kind = "lines"
    /\ Len(reply.lines) = 2
    /\ reply.lines[1].value = reply.lines[2].value
    /\ \E i, j \in 1..Len(Val(last.series)) :
          /\ i < j
          /\ reply.lines[1] = line_of(Val(last.series)[j])
          /\ reply.lines[2] = line_of(Val(last.series)[i])

(***************************************************************************)
(* C16: _parse_number is idempotent: for every input that normalizes, the  *)
(* number it returns, given to _parse_number again (which reads it through *)
(* the text str() gives for it), comes back the same.                      *)
(* The code does not return the same number when str() writes the float    *)
(* with an exponent: see C16_Exponent.                                     *)
(***************************************************************************)
C16_Idempotent ==
    (last.kind = "normalize" /\ reply.kind # "none") =>
        /\ (reply.kind = "not a number") = (normalize(last.x) = None)
        /\ (reply.kind = "number" /\ reply.times = 2) =>
              reply.value = reply.of

\* a number below 0.0001 comes back as its leading digits
C16_Exponent ==
    /\ last.kind = "normalize"
    /\ last.x = <<"0", ".", "0", "0", "0", "0", "7">>
    /\ reply.kind = "number" /\ reply.times = 2
    /\ reply.of = [neg |-> FALSE, digits |-> <<"7">>, decpt |-> 0 - 4]
    /\ reply.value = [neg |-> FALSE, digits |-> <<"7">>, decpt |-> 1]

\* the two forms of _parse_number return the same number, to the digits
\* the units keep, for the numbers of fewer than 8 digits
NormalizeAgrees ==
    (last.kind = "normalize" /\ reply.kind = "number" /\ reply.times = 1
        /\ Len(last.x) < 8) =>
        /\ _parse_number(last.x) # None
        /\ Val(_parse_number(last.x)) = ToUnits(reply.value)

\* where str() writes no exponent the number comes back the same
FixedNotationIdempotent ==
    (last.kind = "normalize" /\ reply.kind = "number" /\ reply.times = 2
        /\ reply.of.decpt >= 0 - 3) =>
        reply.value = reply.of

(***************************************************************************)
(* C17: after any sequence of /start, texts and documents, await_report    *)
(* and await_cogs are never both set in a user's session, mode is set (to  *)
(* mp_money or net_profit) exactly when await_report is set, and a menu    *)
(* button leaves the session in the state of that button whatever the      *)
(* session was before.                                                     *)
(***************************************************************************)
C17_Session ==
    /\ \A u \in Users :
          /\ ~(Truthy(user_data[u], "await_report")
                 /\ Truthy(user_data[u], "await_cogs"))
          /\ ("mode" \in DOMAIN user_data[u])
                = Truthy(user_data[u], "await_report")
          /\ "mode" \in DOMAIN user_data[u] =>
                user_data[u]["mode"] \in {"mp_money", "net_profit"}
    /\ (last.kind = "text" /\ last.text # "other") =>
          LET data == user_data[last.tg_id]
          IN  /\ last.text \in {"menu", "profit"} => data = Empty
              /\ last.text \in {"mp_money", "net_profit"} =>
                    /\ DOMAIN data = {"mode", "await_report"}
                    /\ data["mode"] = last.text
                    /\ data["await_report"] = TRUE
              /\ last.text = "upload_cogs" =>
                    /\ DOMAIN data = {"await_cogs"}
                    /\ data["await_cogs"] = TRUE

\* the cost button pressed in a session that awaited a net-profit report
C17_Witness ==
    /\ last.kind = "text" /\ last.text = "upload_cogs"
    /\ Truthy(last.data, "await_report") /\ mode_of(last.data) = "net_profit"
    /\ user_data[last.tg_id] = [await_cogs |-> TRUE]
    /\ \E u \in Users : u # last.tg_id /\ Truthy(user_data[u], "await_report")

(***************************************************************************)
(* C18: a report that is refused for its suffix or fails to parse leaves   *)
(* the session awaiting a report in the same mode, so the next document    *)
(* that is totalled is totalled in that mode with no button pressed in     *)
(* between; a report that is totalled clears the session, so a further     *)
(* document with no button pressed in between is answered "not awaiting a  *)
(* file" and saves nothing.                                                *)
(***************************************************************************)
Refused(msg) == msg.kind \in {"need_report_file", "parse_error"}

Totalled(msg) == msg.kind \in {"mp_money", "no_cogs", "net_profit"}

\* the mode in which a totalled reply was computed
ModeOf(msg) == IF msg.kind = "mp_money" THEN "mp_money" ELSE "net_profit"

RetryState ==
    last.kind = "document" =>
        /\ Refused(reply) =>
              /\ Truthy(last.data, "await_report")
              /\ user_data[last.tg_id] = last.data
        /\ Totalled(reply) =>
              /\ Truthy(last.data, "await_report")
              /\ ModeOf(reply) = mode_of(last.data)
              /\ user_data[last.tg_id] = Empty

\* two documents of one user, one handled right after the other
RetryStep ==
    \A y \in Users :
        (/\ last.kind = "document" /\ last.tg_id = y
         /\ last'.kind = "document" /\ last'.tg_id = y) =>
            /\ Refused(reply) =>
                  /\ ~Refused(reply') => Totalled(reply') \/ reply'.kind = "no_sku"
                  /\ Totalled(reply') => ModeOf(reply') = mode_of(last.data)
            /\ Totalled(reply) =>
                  /\ reply'.kind = "not_awaiting"
                  /\ profit_reports' = profit_reports
                  /\ cogs' = cogs
                  /\ user_data' = user_data

C18_Retry == []RetryState /\ [][RetryStep]_vars

\* a document that followed the totalled and saved net-profit report of the
\* same user: not awaited, nothing more saved
C18_Witness ==
    /\ last.kind = "document" /\ reply.kind = "not_awaiting"
    /\ last.data = Empty
    /\ Len(profit_reports) = 1
    /\ profit_reports[1].tg_id = last.tg_id
    /\ profit_reports[1].mode = "net_profit"

\* a refused report in a session that keeps awaiting a net-profit report
C18_Refusal ==
    /\ last.kind = "document" /\ Refused(reply)
    /\ user_data[last.tg_id] = button_state("net_profit")

(***************************************************************************)
(* C19: a document received while the session awaits neither a report nor  *)
(* a cost file changes nothing: no row of cogs or profit_reports is        *)
(* written and the session is left as it was.  A cost file is consumed     *)
(* only while await_cogs is set and a report only while await_report is    *)
(* set; a document is never taken as both.                                 *)
(***************************************************************************)
CostReply(msg) == msg.kind \in {"need_csv", "cogs_loaded", "cogs_error"}

ReportReply(msg) == Refused(msg) \/ Totalled(msg) \/ msg.kind = "no_sku"

DocumentFrame ==
    \A y \in Users :
        (last'.kind = "document" /\ last'.tg_id = y) =>
            /\ (~Truthy(user_data[y], "await_cogs")
                  /\ ~Truthy(user_data[y], "await_report")) =>
                  /\ reply'.kind = "not_awaiting"
                  /\ cogs' = cogs
                  /\ profit_reports' = profit_reports
                  /\ user_data' = user_data
            /\ (cogs' # cogs \/ CostReply(reply')) =>
                  /\ Truthy(user_data[y], "await_cogs")
                  /\ profit_reports' = profit_reports
            /\ (profit_reports' # profit_reports \/ ReportReply(reply')) =>
                  /\ Truthy(user_data[y], "await_report")
                  /\ cogs' = cogs
            /\ CostReply(reply') \/ ReportReply(reply')
                  \/ reply'.kind = "not_awaiting"

C19_Frame == [][DocumentFrame]_vars

\* a cost file with a row that parses, sent to a session that awaits
\* nothing: the catalog of the user stays empty
C19_Witness ==
    /\ last.kind = "document" /\ reply.kind = "not_awaiting"
    /\ last.data = Empty /\ user_data[last.tg_id] = Empty
    /\ last.doc.cols = <<"SKU", "Cogs">> /\ Upserted(last.doc) # {}
    /\ cogs[last.tg_id] = Empty
    /\ profit_reports = <<>>

(***************************************************************************)
(* C20: after a cost upload of an owner that succeeded, every SKU with at  *)
(* least one row that has a SKU and a cost that parses holds the cost of   *)
(* the last such row of the file, every other SKU of the owner keeps the   *)
(* cost it had, rows with an empty SKU or a cost that does not parse are   *)
(* skipped, and the count replied is the number of rows written, a SKU     *)
(* counted once for each of its rows.                                      *)
(***************************************************************************)
\* the SKU and the cost of the i-th row of a cost file
UploadSku(doc, i) == Strip(doc.rows[i][field_of(doc.cols, "sku")])

UploadCost(doc, i) == Val(_parse_number(doc.rows[i][field_of(doc.cols, "cogs")]))

C20_LastWriteWins ==
    (last.kind = "document" /\ reply.kind = "cogs_loaded") =>
        LET doc == last.doc
            before == last.cogs_map
            after == get_cogs_map(last.tg_id)
            written == Upserted(doc)
        IN  /\ DOMAIN after
                  = DOMAIN before \cup {UploadSku(doc, i) : i \in written}
            /\ \A i \in written :
                  (\A j \in written :
                      j > i => UploadSku(doc, j) # UploadSku(doc, i)) =>
                      after[UploadSku(doc, i)] = UploadCost(doc, i)
            /\ \A k \in DOMAIN before :
                  k \notin {UploadSku(doc, i) : i \in written} =>
                      after[k] = before[k]
            /\ reply.count = Cardinality(written)
            /\ \A y \in Users \ {last.tg_id} :
                  get_cogs_map(y) = [k \in {<<"A">>} |-> 17 * Scale]

\* A is written twice with different costs, a row between them is skipped,
\* and the cost that B had stays
C20_Witness ==
    /\ last.kind = "document" /\ reply.kind = "cogs_loaded"
    /\ Len(last.doc.rows) = 3
    /\ Upserted(last.doc) = {1, 3}
    /\ UploadSku(last.doc, 1) = <<"A">> /\ UploadSku(last.doc, 3) = <<"A">>
    /\ UploadCost(last.doc, 1) = 17 * Scale
    /\ UploadCost(last.doc, 3) = (5 * Scale) \div 2
    /\ last.cogs_map = [k \in {<<"A">>, <<"B">>} |-> 0 - 5 * Scale]
    /\ get_cogs_map(last.tg_id)
          = [k \in {<<"A">>, <<"B">>} |->
                IF k = <<"A">> THEN (5 * Scale) \div 2 ELSE 0 - 5 * Scale]
    /\ reply.count = 2

(***************************************************************************)
(* C21: a cost upload that ends with an error reply (a file that is no     *)
(* .csv, no header row, no sku or cogs column, or a read error part-way    *)
(* through the file) leaves the cost catalog of the owner as it was before *)
(* the upload and the session still awaiting a cost file; the catalog      *)
(* changes only when the upload ends with the success reply.               *)
(* The code keeps the rows it wrote before a read error: see               *)
(* C21_PartialUpload.                                                      *)
(***************************************************************************)
UploadRefused(msg) == msg.kind \in {"need_csv", "cogs_error"}

C21_ErrorKeepsCatalog ==
    (last.kind = "document" /\ Truthy(last.data, "await_cogs")) =>
        /\ UploadRefused(reply) \/ reply.kind = "cogs_loaded"
        /\ UploadRefused(reply) =>
              /\ get_cogs_map(last.tg_id) = last.cogs_map
              /\ user_data[last.tg_id] = last.data
        /\ get_cogs_map(last.tg_id) # last.cogs_map =>
              reply.kind = "cogs_loaded"

\* the read raised at the third row: the reply is the error, the session
\* still awaits a cost file, and the costs of the first two rows are in the
\* catalog
C21_PartialUpload ==
    /\ last.kind = "document" /\ Truthy(last.data, "await_cogs")
    /\ reply = [kind |-> "cogs_error", error |-> "read error"]
    /\ last.doc.err_row = 3
    /\ last.cogs_map = Empty
    /\ get_cogs_map(last.tg_id)
          = [k \in {<<"A">>, <<"B">>} |->
                IF k = <<"A">> THEN 17 * Scale ELSE (5 * Scale) \div 2]
    /\ user_data[last.tg_id] = last.data

\* what holds of an upload that ends with an error reply: the session is
\* kept, and the catalog is as it was unless the error is a read error
\* after rows that were written
ErrorKeepsSession ==
    (last.kind = "document" /\ Truthy(last.data, "await_cogs")
        /\ UploadRefused(reply)) =>
        /\ user_data[last.tg_id] = last.data
        /\ get_cogs_map(last.tg_id) # last.cogs_map =>
              /\ reply.kind = "cogs_error" /\ reply.error = "read error"
              /\ \E i \in 1..(last.doc.err_row - 1) :
                    /\ Len(UploadSku(last.doc, i)) > 0
                    /\ _parse_number(last.doc.rows[i][field_of(last.doc.cols,
                                                              "cogs")]) # None

(***************************************************************************)
(* C22: in every net-profit result with a catalog that is not empty, the   *)
(* profits by SKU add up to the net profit reported (Net - Cogs_total),    *)
(* also for a report that has rows with an empty SKU cell.                 *)
(* The code leaves the rows without a SKU out of the profits by SKU and    *)
(* keeps them in the net profit: see C22_BlankSkuRow.                      *)
(***************************************************************************)
C22_SharesSum ==
    (ReportParsed /\ reply.kind = "net_profit") =>
        SumOver(DOMAIN reply.profit_by_sku, reply.profit_by_sku)
           = reply.net_profit

\* a report of two rows, the second with a blank SKU cell and the amount
\* 20: the net profit has the 20 and the profits by SKU do not
C22_BlankSkuRow ==
    /\ ReportParsed /\ reply.kind = "net_profit"
    /\ last.doc.cols = <<"Artikul", "Summa">>
    /\ last.doc.rows = <<<<<<"A">>, <<"2", "0">>>>, <<<<" ">>, <<"2", "0">>>>>>
    /\ last.cogs_map = [k \in {<<"A">>} |-> 17 * Scale]
    /\ reply.net_profit = 23 * Scale
    /\ reply.profit_by_sku = [k \in {<<"A">>} |-> 3 * Scale]

\* what holds: the profits by SKU add up to the net profit less the amounts
\* of the rows without a SKU
SharesSumOfSkuRows ==
    (ReportParsed /\ reply.kind = "net_profit") =>
        LET amount == Amount
            blank == [i \in DOMAIN amount |->
                         IF SkuAt(i) = <<>> THEN amount[i] ELSE 0]
        IN  SumOver(DOMAIN reply.profit_by_sku, reply.profit_by_sku)
               = reply.net_profit - SumOver(DOMAIN amount, blank)

====
